---- MODULE Spec2Model ----
(***************************************************************************)
(* project_to_md.py: serialise the working directory into one Markdown     *)
(* document (tree diagram plus file contents) and hand it to the           *)
(* clipboard.                                                              *)
(*                                                                         *)
(* Representation.                                                         *)
(*   - A name, a line, a pattern: a sequence of code points (bytes).       *)
(*   - A path: the sequence of its components; os.path.join appends one,   *)
(*     os.path.relpath drops the components of the working directory.      *)
(*   - A Python str that may hold newlines: the non-empty sequence of its  *)
(*     lines, i.e. s.split("\n"); "" is <<<<>>>>.  Concatenation glues the *)
(*     last line of the left to the first line of the right.               *)
(*   - A file's bytes: pad bytes of "a" followed by the bytes of tail, so  *)
(*     that a file longer than the classifier's prefix is a small value.   *)
(*   - File contents hold no carriage return, so text mode's newline       *)
(*     translation is the identity on them; ignore lines hold no trailing  *)
(*     blanks, escapes, character classes or double asterisks.             *)
(***************************************************************************)
EXTENDS Integers, Sequences, FiniteSets, TLC

VARIABLES
    fs,               \* the directory tree under the working directory
    pc,               \* position of main()
    spec,             \* load_gitignore_patterns' result
    stack,            \* build_file_tree's call stack, innermost frame last
    tested,           \* the is_ignored calls made so far, with their results
    io_failed,        \* paths whose open/read raised in is_binary_file
    project_tree,     \* build_file_tree's result
    tree_section,     \* main's tree_section
    read_failed,      \* paths whose read raised in gather_file_contents
    contents_section, \* main's contents_section
    final_markdown,   \* main's final_markdown
    token_count,      \* count_tokens' result
    clipboard,        \* what pbcopy holds
    stdout,           \* the lines main printed
    error,            \* the exception that ended the run, if any
    sample,           \* the file handed to is_binary_file on its own
    verdict           \* is_binary_file's answer for sample

vars == <<fs, pc, spec, stack, tested, io_failed, project_tree, tree_section,
          read_failed, contents_section, final_markdown, token_count,
          clipboard, stdout, error, sample, verdict>>

-----------------------------------------------------------------------------
(* Bounds of the model. *)

\* Largest number of entries (files and directories) below the root.
MaxEntries == 3

\* Longest tail of bytes of a file handed to is_binary_file on its own.
MaxTail == 3

-----------------------------------------------------------------------------
(* String literals of the program and of the modelled directory trees. *)

S_git == <<46, 103, 105, 116>>  \* '.git'
S_gitignore == <<46, 103, 105, 116, 105, 103, 110, 111, 114, 101>>  \* '.gitignore'
S_pycache == <<95, 95, 112, 121, 99, 97, 99, 104, 101, 95, 95>>  \* '__pycache__'
S_a_py == <<97, 46, 112, 121>>  \* 'a.py'
S_b_bin == <<98, 46, 98, 105, 110>>  \* 'b.bin'
S_d == <<100>>  \* 'd'
S_k_txt == <<107, 46, 116, 120, 116>>  \* 'k.txt'
S_config == <<99, 111, 110, 102, 105, 103>>  \* 'config'
S_w == <<119>>  \* 'w'
S_item == <<45, 32>>  \* '- '
S_bold == <<42, 42>>  \* '**'
S_slash_bold == <<47, 42, 42>>  \* '/**'
S_indent == <<32, 32>>  \* '  '
S_h2 == <<35, 35, 32>>  \* '## '
S_fence == <<96, 96, 96>>  \* '```'
S_binary_note == <<95, 40, 98, 105, 110, 97, 114, 121, 32, 102, 105, 108, 101, 44, 32, 110, 111, 116, 32, 105, 110, 99, 108, 117, 100, 101, 100, 41, 95>>  \* '_(binary file, not included)_'
S_could_not == <<67, 111, 117, 108, 100, 32, 110, 111, 116, 32, 114, 101, 97, 100, 32, 102, 105, 108, 101, 58, 32>>  \* 'Could not read file: '
S_structure == <<35, 32, 80, 114, 111, 106, 101, 99, 116, 32, 83, 116, 114, 117, 99, 116, 117, 114, 101>>  \* '# Project Structure'
S_contents == <<35, 32, 70, 105, 108, 101, 32, 67, 111, 110, 116, 101, 110, 116, 115>>  \* '# File Contents'
S_open_tag == <<60, 112, 114, 111, 106, 101, 99, 116, 62>>  \* '<project>'
S_close_tag == <<60, 47, 112, 114, 111, 106, 101, 99, 116, 62>>  \* '</project>'
S_ext_py == <<46, 112, 121>>  \* '.py'
S_ext_js == <<46, 106, 115>>  \* '.js'
S_ext_ts == <<46, 116, 115>>  \* '.ts'
S_ext_json == <<46, 106, 115, 111, 110>>  \* '.json'
S_ext_html == <<46, 104, 116, 109, 108>>  \* '.html'
S_ext_css == <<46, 99, 115, 115>>  \* '.css'
S_python == <<112, 121, 116, 104, 111, 110>>  \* 'python'
S_javascript == <<106, 97, 118, 97, 115, 99, 114, 105, 112, 116>>  \* 'javascript'
S_typescript == <<116, 121, 112, 101, 115, 99, 114, 105, 112, 116>>  \* 'typescript'
S_json == <<106, 115, 111, 110>>  \* 'json'
S_html == <<104, 116, 109, 108>>  \* 'html'
S_css == <<99, 115, 115>>  \* 'css'
S_print1 == <<112, 114, 105, 110, 116, 40, 49, 41>>  \* 'print(1)'
S_hi_yo == <<104, 105, 10, 121, 111>>  \* 'hi\nyo'
S_ref == <<114, 101, 102, 58, 32, 120, 10>>  \* 'ref: x\n'
S_enoent == <<91, 69, 114, 114, 110, 111, 32, 50, 93, 32, 78, 111, 32, 115, 117, 99, 104, 32, 102, 105, 108, 101, 32, 111, 114, 32, 100, 105, 114, 101, 99, 116, 111, 114, 121>>  \* '[Errno 2] No such file or directory'
S_edecode == <<39, 117, 116, 102, 45, 56, 39, 32, 99, 111, 100, 101, 99, 32, 99, 97, 110, 39, 116, 32, 100, 101, 99, 111, 100, 101, 32, 98, 121, 116, 101>>  \* "'utf-8' codec can't decode byte"
G_empty == <<>>  \* ''
G_bin == <<42, 46, 98, 105, 110, 10>>  \* '*.bin\n'
G_dir_keep == <<100, 10, 33, 107, 46, 116, 120, 116, 10>>  \* 'd\n!k.txt\n'
G_unignore == <<35, 32, 107, 101, 101, 112, 10, 33, 46, 103, 105, 116, 10, 33, 95, 95, 112, 121, 99, 97, 99, 104, 101, 95, 95, 10>>  \* '# keep\n!.git\n!__pycache__\n'
G_dironly == <<100, 47, 10>>  \* 'd/\n'

-----------------------------------------------------------------------------
(* Strings. *)

Min(a, b) == IF a <= b THEN a ELSE b

\* Python's str "<": lexicographic on code points.
StrLess(a, b) ==
    \E i \in 1..(Min(Len(a), Len(b)) + 1) :
        /\ \A j \in 1..(i - 1) : a[j] = b[j]
        /\ \/ i > Len(a) /\ i <= Len(b)
           \/ i <= Len(a) /\ i <= Len(b) /\ a[i] < b[i]

\* a + b
StrCat(a, b) ==
    SubSeq(a, 1, Len(a) - 1) \o <<a[Len(a)] \o b[1]>> \o Tail(b)

\* "\n".join(parts)
RECURSIVE JoinNL(_)
JoinNL(parts) ==
    IF parts = <<>> THEN << <<>> >>
    ELSE IF Len(parts) = 1 THEN parts[1]
    ELSE parts[1] \o JoinNL(Tail(parts))

\* The places of sep in s, and s.split(sep) for a one-character sep.
Places(s, sep) == {i \in 1..Len(s) : s[i] = sep}

SplitOn(s, sep) ==
    LET at == Places(s, sep)
        n == Cardinality(at)
        kth(k) == IF k = 0 THEN 0
                  ELSE IF k = n + 1 THEN Len(s) + 1
                  ELSE CHOOSE i \in at : Cardinality({j \in at : j <= i}) = k
    IN  [k \in 1..(n + 1) |-> SubSeq(s, kth(k - 1) + 1, kth(k) - 1)]

\* str.splitlines(): no empty last line after a final newline
splitlines(s) ==
    LET parts == SplitOn(s, 10)
    IN  IF parts[Len(parts)] = <<>> THEN SubSeq(parts, 1, Len(parts) - 1)
        ELSE parts

\* str.lower() on ASCII
lower(s) == [i \in 1..Len(s) |-> IF s[i] >= 65 /\ s[i] <= 90 THEN s[i] + 32 ELSE s[i]]

\* os.path.splitext(name)[1]: from the last dot, leading dots not counted
splitext(name) ==
    LET dots == Places(name, 46)
        last == IF dots = {} THEN 0 ELSE CHOOSE i \in dots : \A j \in dots : j <= i
    IN  IF last = 0 \/ (\A j \in 1..(last - 1) : name[j] = 46) THEN <<>>
        ELSE SubSeq(name, last, Len(name))

\* Whether part occurs in line.
Contains(line, part) ==
    \E i \in 1..(Len(line) - Len(part) + 1) :
        SubSeq(line, i, i + Len(part) - 1) = part

StartsWith(line, part) ==
    Len(line) >= Len(part) /\ SubSeq(line, 1, Len(part)) = part

-----------------------------------------------------------------------------
(* Paths and the file system. *)

\* os.getcwd(): /w
Cwd == <<S_w>>

\* os.path.join(parent, name)
join(parent, name) == Append(parent, name)

\* os.path.relpath(filepath, start=os.getcwd()) for a path below the root
relpath(filepath) == SubSeq(filepath, Len(Cwd) + 1, Len(filepath))

\* The text of a path: /w/d/k.txt
RECURSIVE PathStr(_)
PathStr(p) == IF p = <<>> THEN <<>> ELSE <<47>> \o p[1] \o PathStr(Tail(p))

NoBytes == [pad |-> 0, tail |-> <<>>]

Dir(path) == [path |-> path, type |-> "dir", content |-> NoBytes]

File(path, bytes) == [path |-> path, type |-> "file", content |-> [pad |-> 0, tail |-> bytes]]

FileBytes(c) ==
    [i \in 1..(c.pad + Len(c.tail)) |-> IF i <= c.pad THEN 97 ELSE c.tail[i - c.pad]]

Parent(path) == SubSeq(path, 1, Len(path) - 1)

Entry(tree, abspath) == CHOOSE e \in tree : e.path = relpath(abspath)

\* os.path.exists
exists(tree, abspath) == \E e \in tree : e.path = relpath(abspath)

\* os.path.isdir
isdir(tree, abspath) == \E e \in tree : e.path = relpath(abspath) /\ e.type = "dir"

\* os.listdir: the names in a directory, in no particular order
listdir(tree, abspath) ==
    {e.path[Len(e.path)] : e \in {x \in tree : Parent(x.path) = relpath(abspath)}}

-----------------------------------------------------------------------------
(* Content Classifier: is_binary_file. *)

\* is_binary_file's default check_bytes
check_bytes == 1024

\* f.read(n) on a file opened "rb": the first n bytes, or all of them
read(c, n) == SubSeq(FileBytes(c), 1, Min(n, c.pad + Len(c.tail)))

IsCont(b) == b >= 128 /\ b <= 191

\* The length of the UTF-8 sequence a byte starts; 0 for a byte that starts none.
SeqLen(b) ==
    IF b < 128 THEN 1
    ELSE IF b >= 194 /\ b <= 223 THEN 2
    ELSE IF b >= 224 /\ b <= 239 THEN 3
    ELSE IF b >= 240 /\ b <= 244 THEN 4
    ELSE 0

\* The second byte's range after the lead bytes that narrow it.
SecondOk(lead, b) ==
    /\ lead = 224 => b >= 160
    /\ lead = 237 => b <= 159
    /\ lead = 240 => b >= 144
    /\ lead = 244 => b <= 143

\* bytes.decode("utf-8") succeeds: every byte that is no continuation byte
\* starts a complete sequence, and every continuation byte belongs to one.
decodes(s) ==
    \A i \in 1..Len(s) :
        IF IsCont(s[i])
        THEN \E j \in 1..3 :
                /\ i - j >= 1
                /\ SeqLen(s[i - j]) > j
                /\ \A m \in (i - j + 1)..(i - 1) : IsCont(s[m])
        ELSE /\ SeqLen(s[i]) >= 1
             /\ i + SeqLen(s[i]) - 1 <= Len(s)
             /\ \A m \in (i + 1)..(i + SeqLen(s[i]) - 1) : IsCont(s[m])
             /\ SeqLen(s[i]) >= 2 => SecondOk(s[i], s[i + 1])

\* is_binary_file(filepath) for a file of content c; raised: open or read raised
is_binary_file_whole(c, raised) ==
    IF raised THEN TRUE
    ELSE LET chunk == FileBytes(c)
         IN  IF 0 \in {chunk[i] : i \in 1..Len(chunk)} THEN TRUE
             ELSE IF ~decodes(chunk) THEN TRUE
             ELSE FALSE

is_binary_file(c, raised) ==
    IF raised THEN TRUE
    ELSE LET chunk == read(c, check_bytes)
         IN  IF 0 \in {chunk[i] : i \in 1..Len(chunk)} THEN TRUE
             ELSE IF ~decodes(chunk) THEN TRUE
             ELSE FALSE

-----------------------------------------------------------------------------
(* Ignore Matcher: the pathspec library's gitwildmatch patterns. *)

NoPattern == [null |-> TRUE, include |-> FALSE, anchored |-> FALSE, dir_only |-> FALSE, segs |-> <<>>]

\* One line of the ignore file as a pattern.  A blank line, a comment and a
\* lone slash match nothing; "!" negates; a slash at the start or inside
\* anchors the pattern at the root; a slash at the end matches only what lies
\* beneath.
pattern_of(line) ==
    IF line = <<>> \/ line[1] = 35 THEN NoPattern
    ELSE LET include == line[1] /= 33
             body == IF include THEN line ELSE Tail(line)
             parts == SplitOn(body, 47)
             n == Len(parts)
             lead == n > 1 /\ parts[1] = <<>>
             trail == n > 1 /\ parts[n] = <<>>
             segs == SubSeq(parts, IF lead THEN 2 ELSE 1, IF trail THEN n - 1 ELSE n)
         IN  IF body = <<>> \/ segs = <<>> THEN NoPattern
             ELSE [null |-> FALSE, include |-> include,
                   anchored |-> lead \/ n > 2 \/ (n = 2 /\ ~trail),
                   dir_only |-> trail, segs |-> segs]

\* PathSpec.from_lines("gitwildmatch", lines)
from_lines(lines) == [i \in 1..Len(lines) |-> pattern_of(lines[i])]

\* fnmatch of one path component: "*" any run of characters, "?" any one
Glob_literal(pat, s) == pat = s

RECURSIVE Glob(_, _)
Glob(pat, s) ==
    IF pat = <<>> THEN s = <<>>
    ELSE IF pat[1] = 42 THEN Glob(Tail(pat), s) \/ (s /= <<>> /\ Glob(pat, Tail(s)))
    ELSE IF pat[1] = 63 THEN s /= <<>> /\ Glob(Tail(pat), Tail(s))
    ELSE s /= <<>> /\ s[1] = pat[1] /\ Glob(Tail(pat), Tail(s))

\* A pattern matches a path when its segments match consecutive components
\* (from the first one if anchored); the path may go on beneath them, and must
\* if the pattern ends with a slash.
pattern_matches(p, rel) ==
    /\ ~p.null
    /\ \E s \in (IF p.anchored THEN {1} ELSE 1..Len(rel)) :
          LET last == s + Len(p.segs) - 1
          IN  /\ last <= Len(rel)
              /\ \A i \in 1..Len(p.segs) : Glob(p.segs[i], rel[s + i - 1])
              /\ p.dir_only => last < Len(rel)

\* PathSpec.match_file: the last pattern that matches decides
match_file(patterns, rel) ==
    LET hits == {i \in 1..Len(patterns) : pattern_matches(patterns[i], rel)}
    IN  /\ hits /= {}
        /\ patterns[CHOOSE i \in hits : \A j \in hits : j <= i].include

None == [loaded |-> FALSE, patterns |-> <<>>]

\* load_gitignore_patterns once the file was read and decoded
compiled(text) == [loaded |-> TRUE, patterns |-> from_lines(splitlines(text))]

is_ignored(filepath, sp) ==
    IF ~sp.loaded THEN FALSE
    ELSE match_file(sp.patterns, relpath(filepath))

-----------------------------------------------------------------------------
(* The tree: a dict in insertion order, here a sequence of nodes.  A node   *)
(* of kind "DIR" stands for a nested dict, "FILE" and "BINARY" for the      *)
(* strings build_file_tree stores.                                          *)

DirNode(name, children) == [name |-> name, kind |-> "DIR", children |-> children]

LeafNode(name, kind) == [name |-> name, kind |-> kind, children |-> <<>>]

\* sorted(names): ascending by code point
RECURSIVE sorted_desc(_)
sorted_desc(names) ==
    IF names = {} THEN <<>>
    ELSE LET top == CHOOSE a \in names : \A b \in names \ {a} : StrLess(b, a)
         IN  <<top>> \o sorted_desc(names \ {top})

RECURSIVE sorted(_)
sorted(names) ==
    IF names = {} THEN <<>>
    ELSE LET least == CHOOSE a \in names : \A b \in names \ {a} : StrLess(a, b)
         IN  <<least>> \o sorted(names \ {least})

\* Folders to skip explicitly, regardless of .gitignore
skip_dirs_git_only == {S_git}

skip_dirs == {S_git, S_pycache}

-----------------------------------------------------------------------------
(* Tree Renderer. *)

\* render_tree_markdown's list "lines" and its result
RECURSIVE render_lines(_, _)
render_lines(tree, prefix) ==
    IF tree = <<>> THEN <<>>
    ELSE LET node == tree[1]
             own == IF node.kind = "DIR"
                    THEN << <<prefix \o S_item \o S_bold \o node.name \o S_slash_bold>>,
                            JoinNL(render_lines(node.children, prefix \o S_indent)) >>
                    ELSE << <<prefix \o S_item \o node.name>> >>
         IN  own \o render_lines(Tail(tree), prefix)

render_tree_markdown(tree, prefix) == JoinNL(render_lines(tree, prefix))

-----------------------------------------------------------------------------
(* Content Gatherer. *)

\* open(full_path, "r", encoding="utf-8").read(): the text, or the exception.
\* The read raises when the file is gone by now (gone) and when its bytes
\* are not UTF-8.
read_text(full_path, files, gone) ==
    IF full_path \in gone \/ ~exists(files, full_path)
    THEN [raised |-> TRUE, text |-> <<S_enoent>>]
    ELSE LET bytes == FileBytes(Entry(files, full_path).content)
         IN  IF ~decodes(bytes) THEN [raised |-> TRUE, text |-> <<S_edecode>>]
             ELSE [raised |-> FALSE, text |-> SplitOn(bytes, 10)]

\* The extension -> language table of the fenced blocks.
fence_lang(extension) ==
    IF extension = S_ext_py THEN S_python
    ELSE IF extension = S_ext_js THEN S_javascript
    ELSE IF extension = S_ext_ts THEN S_typescript
    ELSE IF extension = S_ext_json THEN S_json
    ELSE IF extension = S_ext_html THEN S_html
    ELSE IF extension = S_ext_css THEN S_css
    ELSE <<>>

\* What gather_file_contents appends for a node of value "FILE".
file_parts(name, full_path, files, gone) ==
    LET r == read_text(full_path, files, gone)
        file_text == IF r.raised THEN StrCat(<<S_could_not>>, r.text) ELSE r.text
    IN  << <<S_h2 \o PathStr(full_path), <<>> >>,
           <<S_fence \o fence_lang(lower(splitext(name)))>>,
           file_text,
           <<S_fence, <<>> >> >>

\* What gather_file_contents appends for a node of value "BINARY".
binary_parts_silent(full_path) == <<>>

binary_parts(full_path) ==
    << <<S_h2 \o PathStr(full_path), <<>> >>,
       <<S_binary_note, <<>> >> >>

\* gather_file_contents' list "contents" and its result
RECURSIVE gather_parts(_, _, _, _)
gather_parts(tree, parent_path, files, gone) ==
    IF tree = <<>> THEN <<>>
    ELSE LET node == tree[1]
             full_path == join(parent_path, node.name)
             own == IF node.kind = "DIR"
                    THEN <<JoinNL(gather_parts(node.children, full_path, files, gone))>>
                    ELSE IF node.kind = "FILE"
                    THEN file_parts(node.name, full_path, files, gone)
                    ELSE binary_parts(full_path)
         IN  own \o gather_parts(Tail(tree), parent_path, files, gone)

gather_file_contents(tree, parent_path, files, gone) ==
    JoinNL(gather_parts(tree, parent_path, files, gone))

-----------------------------------------------------------------------------
(* count_tokens' fallback: len(text.split()). *)

IsSpace(ch) == ch = 32 \/ (ch >= 9 /\ ch <= 13)

word_count(text) ==
    Cardinality({p \in UNION {{<<l, i>> : i \in 1..Len(text[l])} : l \in 1..Len(text)} :
        /\ ~IsSpace(text[p[1]][p[2]])
        /\ (p[2] = 1 \/ IsSpace(text[p[1]][p[2] - 1]))})

-----------------------------------------------------------------------------
(* The directory trees of the model: the subsets of World with at most      *)
(* MaxEntries entries in which every entry's parent is a directory of the   *)
(* subset and no path occurs twice.                                         *)

\* 1024 bytes of text followed by a byte that is not UTF-8.
LateBad == [pad |-> check_bytes, tail |-> <<255>>]

World ==
    { Dir(<<S_git>>), File(<<S_git>>, S_ref), File(<<S_git, S_config>>, S_ref),
      File(<<S_gitignore>>, G_empty), File(<<S_gitignore>>, G_bin),
      File(<<S_gitignore>>, G_dir_keep), File(<<S_gitignore>>, G_unignore),
      File(<<S_gitignore>>, G_dironly), File(<<S_gitignore>>, <<255>>),
      Dir(<<S_gitignore>>),
      File(<<S_a_py>>, S_print1), File(<<S_b_bin>>, <<0, 1>>),
      File(<<S_k_txt>>, S_hi_yo),
      Dir(<<S_d>>), Dir(<<S_d, S_pycache>>), File(<<S_d, S_k_txt>>, S_hi_yo),
      [path |-> <<S_d, S_k_txt>>, type |-> "file", content |-> LateBad] }

RECURSIVE Trees(_)
Trees(n) ==
    IF n = 0 THEN {{}}
    ELSE LET smaller == Trees(n - 1)
         IN  smaller \cup
             { t \cup {e} : <<t, e>> \in
                 { x \in smaller \X World :
                     /\ \A y \in x[1] : y.path /= x[2].path
                     /\ Len(x[2].path) = 1 \/ Dir(Parent(x[2].path)) \in x[1] } }

-----------------------------------------------------------------------------
(* main(). *)

EmptyStr == << <<>> >>

NoSample == [content |-> NoBytes, raised |-> FALSE]

Init ==
    /\ fs \in Trees(MaxEntries)
    /\ pc = "load"
    /\ spec = None
    /\ stack = <<>>
    /\ tested = {}
    /\ io_failed = {}
    /\ project_tree = <<>>
    /\ tree_section = EmptyStr
    /\ read_failed = {}
    /\ contents_section = EmptyStr
    /\ final_markdown = EmptyStr
    /\ token_count = [method |-> "none", count |-> 0]
    /\ clipboard = [set |-> FALSE, text |-> EmptyStr]
    /\ stdout = <<>>
    /\ error = "none"
    /\ sample = NoSample
    /\ verdict = "none"

gitignore_path == join(Cwd, S_gitignore)

\* spec = load_gitignore_patterns(gitignore_path).  Nothing catches what
\* open() or read() raise: a directory, a file that may not be read, bytes
\* that are not UTF-8.
Load ==
    /\ pc = "load"
    /\ \/ /\ ~exists(fs, gitignore_path)
          /\ spec' = None /\ pc' = "build" /\ error' = error
       \/ /\ exists(fs, gitignore_path)
          /\ isdir(fs, gitignore_path)
          /\ spec' = spec /\ pc' = "crashed" /\ error' = "IsADirectoryError"
       \/ /\ exists(fs, gitignore_path)
          /\ ~isdir(fs, gitignore_path)
          /\ spec' = spec /\ pc' = "crashed" /\ error' = "PermissionError"
       \/ /\ exists(fs, gitignore_path)
          /\ ~isdir(fs, gitignore_path)
          /\ ~decodes(FileBytes(Entry(fs, gitignore_path).content))
          /\ spec' = spec /\ pc' = "crashed" /\ error' = "UnicodeDecodeError"
       \/ /\ exists(fs, gitignore_path)
          /\ ~isdir(fs, gitignore_path)
          /\ decodes(FileBytes(Entry(fs, gitignore_path).content))
          /\ spec' = compiled(FileBytes(Entry(fs, gitignore_path).content))
          /\ pc' = "build" /\ error' = error
    /\ UNCHANGED <<fs, stack, tested, io_failed, project_tree, tree_section,
                   read_failed, contents_section, final_markdown, token_count,
                   clipboard, stdout, sample, verdict>>

\* A call of build_file_tree: its root, the sorted entries not yet visited
\* (the first is the one being visited), and its dict so far.
Frame(root, files) == [dir |-> root, todo |-> sorted(listdir(files, root)), tree |-> <<>>]

Top == stack[Len(stack)]

Below == SubSeq(stack, 1, Len(stack) - 1)

\* The loop of the innermost call goes on to its next entry.
Continue(frame) == [frame EXCEPT !.todo = Tail(@)]

Attach(frame, node) == [frame EXCEPT !.todo = Tail(@), !.tree = Append(@, node)]

BuildLeaves == <<fs, spec, project_tree, tree_section, read_failed, contents_section,
                 final_markdown, token_count, clipboard, stdout, sample, verdict>>

\* project_tree = build_file_tree(root_dir, spec): the outermost call lists
\* the root, or os.listdir raises.
BuildStart ==
    /\ pc = "build"
    /\ \/ /\ stack' = <<Frame(Cwd, fs)>> /\ pc' = "walk" /\ error' = error
       \/ /\ stack' = stack /\ pc' = "crashed" /\ error' = "OSError"
    /\ UNCHANGED <<tested, io_failed>>
    /\ UNCHANGED BuildLeaves

Visiting == pc = "walk" /\ Top.todo /= <<>>

entry == Head(Top.todo)

path == join(Top.dir, entry)

Skipped == entry \in skip_dirs /\ isdir(fs, path)

\* if entry in skip_dirs and os.path.isdir(path): continue
SkipDir ==
    /\ Visiting
    /\ Skipped
    /\ stack' = Append(Below, Continue(Top))
    /\ UNCHANGED <<pc, error, tested, io_failed>>
    /\ UNCHANGED BuildLeaves

\* if is_ignored(path, spec): continue
SkipIgnored ==
    /\ Visiting
    /\ ~Skipped
    /\ is_ignored(path, spec)
    /\ tested' = tested \cup {[path |-> path, result |-> TRUE]}
    /\ stack' = Append(Below, Continue(Top))
    /\ UNCHANGED <<pc, error, io_failed>>
    /\ UNCHANGED BuildLeaves

\* tree[entry] = build_file_tree(path, spec): the call begins
RecurseUnchecked ==
    /\ Visiting
    /\ ~Skipped
    /\ isdir(fs, path)
    /\ tested' = tested \cup {[path |-> path, result |-> is_ignored(path, spec)]}
    /\ stack' = Append(stack, Frame(path, fs)) /\ pc' = pc /\ error' = error
    /\ UNCHANGED io_failed
    /\ UNCHANGED BuildLeaves

Recurse ==
    /\ Visiting
    /\ ~Skipped
    /\ ~is_ignored(path, spec)
    /\ isdir(fs, path)
    /\ tested' = tested \cup {[path |-> path, result |-> FALSE]}
    /\ \/ /\ stack' = Append(stack, Frame(path, fs)) /\ pc' = pc /\ error' = error
       \/ /\ stack' = stack /\ pc' = "crashed" /\ error' = "OSError"
    /\ UNCHANGED io_failed
    /\ UNCHANGED BuildLeaves

\* tree[entry] = "BINARY" if is_binary_file(path) else "FILE"
AttachFile ==
    /\ Visiting
    /\ ~Skipped
    /\ ~is_ignored(path, spec)
    /\ ~isdir(fs, path)
    /\ tested' = tested \cup {[path |-> path, result |-> FALSE]}
    /\ \E raised \in BOOLEAN :
          /\ io_failed' = IF raised THEN io_failed \cup {path} ELSE io_failed
          /\ stack' = Append(Below, Attach(Top,
                 LeafNode(entry,
                     IF is_binary_file(Entry(fs, path).content, raised)
                     THEN "BINARY" ELSE "FILE")))
    /\ UNCHANGED <<pc, error>>
    /\ UNCHANGED BuildLeaves

\* return tree: to the call that recursed, or to main
Return ==
    /\ pc = "walk"
    /\ Top.todo = <<>>
    /\ \/ /\ Len(stack) > 1
          /\ stack' = Append(SubSeq(stack, 1, Len(stack) - 2),
                 Attach(stack[Len(stack) - 1],
                        DirNode(Head(stack[Len(stack) - 1].todo), Top.tree)))
          /\ UNCHANGED <<pc, project_tree>>
       \/ /\ Len(stack) = 1
          /\ stack' = <<>>
          /\ project_tree' = Top.tree
          /\ pc' = "render"
    /\ UNCHANGED <<fs, spec, tested, io_failed, tree_section, read_failed,
                   contents_section, final_markdown, token_count, clipboard,
                   stdout, error, sample, verdict>>

\* The nodes of a tree, each with its path: [path, kind].
RECURSIVE Nodes(_, _)
Nodes(tree, parent_path) ==
    IF tree = <<>> THEN {}
    ELSE {[path |-> join(parent_path, tree[1].name), kind |-> tree[1].kind]}
         \cup Nodes(tree[1].children, join(parent_path, tree[1].name))
         \cup Nodes(Tail(tree), parent_path)

FilePaths(tree) == {n.path : n \in {x \in Nodes(tree, Cwd) : x.kind = "FILE"}}

\* tree_section = "# Project Structure\n\n" + render_tree_markdown(project_tree)
Render ==
    /\ pc = "render"
    /\ tree_section' = StrCat(<<S_structure, <<>>, <<>> >>,
                              render_tree_markdown(project_tree, <<>>))
    /\ pc' = "gather"
    /\ UNCHANGED <<fs, spec, stack, tested, io_failed, project_tree, read_failed,
                   contents_section, final_markdown, token_count, clipboard,
                   stdout, error, sample, verdict>>

\* contents_section = "\n\n# File Contents\n\n" + gather_file_contents(...),
\* with every read that raises caught.  Any of the files may be gone since
\* the tree was built.
GatherUncaught ==
    /\ pc = "gather"
    /\ \E gone \in SUBSET FilePaths(project_tree) :
          /\ read_failed' = gone
          /\ IF \E p \in FilePaths(project_tree) : read_text(p, fs, gone).raised
             THEN /\ pc' = "crashed" /\ error' = "OSError"
                  /\ contents_section' = contents_section
             ELSE /\ pc' = "assemble" /\ error' = error
                  /\ contents_section' =
                        StrCat(<< <<>>, <<>>, S_contents, <<>>, <<>> >>,
                               gather_file_contents(project_tree, Cwd, fs, gone))
    /\ UNCHANGED <<fs, spec, stack, tested, io_failed, project_tree, tree_section,
                   final_markdown, token_count, clipboard, stdout, sample, verdict>>

Gather ==
    /\ pc = "gather"
    /\ \E gone \in SUBSET FilePaths(project_tree) :
          /\ read_failed' = gone
          /\ contents_section' =
                StrCat(<< <<>>, <<>>, S_contents, <<>>, <<>> >>,
                       gather_file_contents(project_tree, Cwd, fs, gone))
    /\ pc' = "assemble"
    /\ UNCHANGED <<fs, spec, stack, tested, io_failed, project_tree, tree_section,
                   final_markdown, token_count, clipboard, stdout, error, sample,
                   verdict>>

\* final_markdown = f"<project>\n{tree_section + contents_section}\n</project>\n"
Assemble ==
    /\ pc = "assemble"
    /\ final_markdown' =
          StrCat(StrCat(StrCat(<<S_open_tag, <<>> >>, tree_section), contents_section),
                 << <<>>, S_close_tag, <<>> >>)
    /\ pc' = "count"
    /\ UNCHANGED <<fs, spec, stack, tested, io_failed, project_tree, tree_section,
                   read_failed, contents_section, token_count, clipboard, stdout,
                   error, sample, verdict>>

\* token_count = count_tokens(final_markdown): tiktoken's count where it can
\* be imported (an answer of the library, left open here as -1), else the
\* number of whitespace-separated words.
Count ==
    /\ pc = "count"
    /\ \/ token_count' = [method |-> "tiktoken", count |-> -1]
       \/ token_count' = [method |-> "whitespace", count |-> word_count(final_markdown)]
    /\ pc' = "copy"
    /\ UNCHANGED <<fs, spec, stack, tested, io_failed, project_tree, tree_section,
                   read_failed, contents_section, final_markdown, clipboard,
                   stdout, error, sample, verdict>>

\* subprocess.run(["pbcopy"], input=final_markdown, text=True), without
\* check=True: a missing command raises, a failing one returns.
Copy ==
    /\ pc = "copy"
    /\ \/ /\ clipboard' = [set |-> TRUE, text |-> final_markdown]
          /\ pc' = "print" /\ error' = error
       \/ /\ clipboard' = clipboard
          /\ pc' = "print" /\ error' = error
       \/ /\ clipboard' = clipboard
          /\ pc' = "crashed" /\ error' = "FileNotFoundError"
    /\ UNCHANGED <<fs, spec, stack, tested, io_failed, project_tree, tree_section,
                   read_failed, contents_section, final_markdown, token_count,
                   stdout, sample, verdict>>

\* The two print calls that end main.
PrintSummary ==
    /\ pc = "print"
    /\ stdout' = <<[text |-> "Project has been converted to Markdown (wrapped in <project> tags) and copied to your clipboard.",
                    value |-> 0],
                   [text |-> "Total tokens in output: ", value |-> token_count.count]>>
    /\ pc' = "done"
    /\ UNCHANGED <<fs, spec, stack, tested, io_failed, project_tree, tree_section,
                   read_failed, contents_section, final_markdown, token_count,
                   clipboard, error, sample, verdict>>

Next ==
    \/ Load
    \/ BuildStart
    \/ SkipDir
    \/ SkipIgnored
    \/ Recurse
    \/ AttachFile
    \/ Return
    \/ Render
    \/ Gather
    \/ Assemble
    \/ Count
    \/ Copy
    \/ PrintSummary

Spec == Init /\ [][Next]_vars

-----------------------------------------------------------------------------
(* is_binary_file on its own, over files up to and beyond its prefix. *)

SampleBytes == {0, 97, 195, 169, 255}

RECURSIVE Tails(_)
Tails(n) ==
    IF n = 0 THEN {<<>>}
    ELSE Tails(n - 1) \cup
         {Append(t, b) : <<t, b>> \in {x \in Tails(n - 1) \X SampleBytes : Len(x[1]) = n - 1}}

Samples ==
    [content : [pad : {0, check_bytes - 2, check_bytes - 1, check_bytes},
                tail : Tails(MaxTail)],
     raised : BOOLEAN]

InitClassify ==
    /\ fs = {}
    /\ pc = "classify"
    /\ spec = None
    /\ stack = <<>>
    /\ tested = {}
    /\ io_failed = {}
    /\ project_tree = <<>>
    /\ tree_section = EmptyStr
    /\ read_failed = {}
    /\ contents_section = EmptyStr
    /\ final_markdown = EmptyStr
    /\ token_count = [method |-> "none", count |-> 0]
    /\ clipboard = [set |-> FALSE, text |-> EmptyStr]
    /\ stdout = <<>>
    /\ error = "none"
    /\ sample \in Samples
    /\ verdict = "none"

Classify ==
    /\ pc = "classify"
    /\ verdict' = IF is_binary_file(sample.content, sample.raised) THEN "BINARY" ELSE "TEXT"
    /\ pc' = "classified"
    /\ UNCHANGED <<fs, spec, stack, tested, io_failed, project_tree, tree_section,
                   read_failed, contents_section, final_markdown, token_count,
                   clipboard, stdout, error, sample>>

NextClassify == Classify

SpecClassify == InitClassify /\ [][NextClassify]_vars

-----------------------------------------------------------------------------
(* Reading the output back: list items of the tree section, headings of the *)
(* content section.                                                         *)

\* render_tree_markdown has just returned (tree_section is not written again).
Rendered == pc = "gather"

\* gather_file_contents has just returned (contents_section is not written again).
Gathered == pc = "assemble"

Assembled == pc \in {"count", "copy", "print", "done"}

\* The two directory names the claims call always excluded.
AlwaysExcluded == {S_git, S_pycache}

\* What render_tree_markdown returned: tree_section without its heading.
Rendering == SubSeq(tree_section, 3, Len(tree_section))

\* The number of lines of a text; the empty text has none.
LineCount(text) == IF text = EmptyStr THEN 0 ELSE Len(text)

Lead(line) == Cardinality({i \in 1..Len(line) : \A j \in 1..i : line[j] = 32})

IsItem(line) ==
    /\ Lead(line) % 2 = 0
    /\ Len(line) > Lead(line) + 2
    /\ SubSeq(line, Lead(line) + 1, Lead(line) + 2) = S_item

ItemText(line) == SubSeq(line, Lead(line) + 3, Len(line))

ItemIsDir(line) ==
    LET t == ItemText(line)
    IN  Len(t) > 5 /\ SubSeq(t, 1, 2) = S_bold /\ SubSeq(t, Len(t) - 2, Len(t)) = S_slash_bold

ItemName(line) ==
    IF ItemIsDir(line) THEN SubSeq(ItemText(line), 3, Len(ItemText(line)) - 3)
    ELSE ItemText(line)

ItemDepth(line) == Lead(line) \div 2

Items(r) == {i \in 1..Len(r) : IsItem(r[i])}

\* The item above item i (or i itself) at depth k: the nearest one.
Above(r, i, k) ==
    CHOOSE m \in Items(r) :
        /\ m <= i /\ ItemDepth(r[m]) = k
        /\ \A n \in Items(r) : (n <= i /\ ItemDepth(r[n]) = k) => n <= m

\* The path, below the root, that item i of a rendering stands for.
ItemPath(r, i) == [k \in 1..(ItemDepth(r[i]) + 1) |-> ItemName(r[Above(r, i, k - 1)])]

Ignored(rel) == is_ignored(Cwd \o rel, spec)

ExcludedDir(rel) == rel[Len(rel)] \in AlwaysExcluded /\ isdir(fs, Cwd \o rel)

\* Entries that are not ignored and are neither an always-excluded directory
\* nor beneath one.
Unignored ==
    {e \in fs : /\ ~Ignored(e.path)
                /\ \A k \in 1..Len(e.path) : ~ExcludedDir(SubSeq(e.path, 1, k))}

\* Entries for which that holds of the entry and of every directory above it.
Survivors ==
    {e \in fs : \A k \in 1..Len(e.path) :
        ~Ignored(SubSeq(e.path, 1, k)) /\ ~ExcludedDir(SubSeq(e.path, 1, k))}

ListsExactly(entries) ==
    LET r == Rendering
        items == Items(r)
        paths == [i \in items |-> ItemPath(r, i)]
    IN  /\ {paths[i] : i \in items} = {e.path : e \in entries}
        /\ \A i, j \in items : i /= j => paths[i] /= paths[j]
        /\ \A i \in items : ItemIsDir(r[i]) <=> isdir(fs, Cwd \o paths[i])
        /\ \A i, j \in items :
              (i < j /\ Len(paths[i]) = Len(paths[j])
                     /\ Parent(paths[i]) = Parent(paths[j]))
              => StrLess(ItemName(r[i]), ItemName(r[j]))

NotMentioned(text, name) == \A i \in 1..Len(text) : ~Contains(text[i], name)

IsHeading(line) == StartsWith(line, S_h2)

\* The paths the headings of a text name, in order.
Headings(text) ==
    LET h == SelectSeq(text, IsHeading)
    IN  [i \in 1..Len(h) |-> SubSeq(h[i], Len(S_h2) + 1, Len(h[i]))]

\* The leaves of a tree in the order of the dict: [path, kind].
RECURSIVE LeafSeq(_, _)
LeafSeq(tree, parent_path) ==
    IF tree = <<>> THEN <<>>
    ELSE (IF tree[1].kind = "DIR"
          THEN LeafSeq(tree[1].children, join(parent_path, tree[1].name))
          ELSE <<[path |-> join(parent_path, tree[1].name), kind |-> tree[1].kind]>>)
         \o LeafSeq(Tail(tree), parent_path)

\* Every node attached so far: in main's tree and in the dicts of the calls
\* of build_file_tree that are under way.
Attached ==
    Nodes(project_tree, Cwd)
    \cup UNION {Nodes(stack[i].tree, stack[i].dir) : i \in 1..Len(stack)}

-----------------------------------------------------------------------------
(* C1 *)

\* C1, as stated: once the tree is rendered, the rendering holds exactly one
\* list item for every entry whose path is not ignored and that is not an
\* always-excluded directory (read: nor beneath one), siblings in ascending
\* order of name.
C1_ListsEveryUnignoredEntry == Rendered => ListsExactly(Unignored)

\* C1, amended: the rendering holds exactly one list item for every entry
\* such that neither it nor any directory above it (below the root) is
\* ignored or an always-excluded directory; siblings are in ascending order
\* of name (by code point), and an item is marked as a directory exactly when
\* its entry is one.
C1_ListsSurvivors == Rendered => ListsExactly(Survivors)

\* C1's case: an ignored directory holds an entry that is itself not ignored,
\* and the rendering lists other entries.
C1_Witness ==
    /\ Rendered
    /\ Items(Rendering) /= {}
    /\ \E e \in fs : Len(e.path) = 2 /\ ~Ignored(e.path) /\ Ignored(Parent(e.path))

-----------------------------------------------------------------------------
(* C2 *)

\* C2, as stated: no node of the tree, directory or file, at any depth and
\* at any time, is named .git or __pycache__.
C2_NoNodeNamedExcluded ==
    \A n \in Attached : n.path[Len(n.path)] \notin AlwaysExcluded

\* C2, amended: no directory named .git or __pycache__ is a node of the tree,
\* at any depth and whatever the ignore file says, and nothing beneath such a
\* directory is a node either, nor is it named in the assembled document; a
\* regular file of that name is a node like any other file.
C2_NoExcludedDirectory ==
    /\ \A n \in Attached : \A k \in (Len(Cwd) + 1)..Len(n.path) :
          ~ExcludedDir(relpath(SubSeq(n.path, 1, k)))
    /\ pc = "count" =>
          \A e \in {x \in fs : ExcludedDir(x.path)} :
              /\ NotMentioned(final_markdown, S_bold \o e.path[Len(e.path)] \o S_slash_bold)
              /\ NotMentioned(final_markdown, PathStr(Cwd \o e.path) \o <<47>>)
              /\ \A i \in 1..Len(final_markdown) :
                    final_markdown[i] /= S_h2 \o PathStr(Cwd \o e.path)

\* C2's case: the ignore file un-ignores .git, the directory .git holds a
\* file, and the tree is built.
C2_Witness ==
    /\ pc = "render"
    /\ spec.loaded
    /\ \E i \in 1..Len(spec.patterns) :
          ~spec.patterns[i].null /\ ~spec.patterns[i].include
          /\ spec.patterns[i].segs = <<S_git>>
    /\ Dir(<<S_git>>) \in fs
    /\ \E e \in fs : Len(e.path) = 2 /\ e.path[1] = S_git
    /\ project_tree /= <<>>

-----------------------------------------------------------------------------
(* C3 *)

\* C3: once the contents are gathered, the heading lines name the leaves
\* of the tree one to one: as many headings as leaves, every leaf's path
\* under a heading, and no directory's path under one.
C3_HeadingsAreLeaves ==
    Gathered =>
        LET h == Headings(contents_section)
            nodes == Nodes(project_tree, Cwd)
            leaves == {n \in nodes : n.kind /= "DIR"}
        IN  /\ Len(h) = Cardinality(leaves)
            /\ {h[i] : i \in 1..Len(h)} = {PathStr(n.path) : n \in leaves}
            /\ \A n \in nodes \ leaves : \A i \in 1..Len(h) : h[i] /= PathStr(n.path)

\* C3's case: the tree holds a text file, a binary file and a directory.
C3_Witness ==
    /\ Gathered
    /\ \E a, b, c \in Nodes(project_tree, Cwd) :
          a.kind = "FILE" /\ b.kind = "BINARY" /\ c.kind = "DIR"

-----------------------------------------------------------------------------
(* C4 *)

\* The run of the scenario: a.py, b.bin and an ignore file holding *.bin,
\* every read succeeding, the document assembled.
ScenarioRun ==
    /\ fs = {File(<<S_gitignore>>, G_bin), File(<<S_a_py>>, S_print1),
             File(<<S_b_bin>>, <<0, 1>>)}
    /\ Assembled
    /\ io_failed = {} /\ read_failed = {}

ItemNames(r) ==
    LET items == SelectSeq(r, IsItem)
    IN  [i \in 1..Len(items) |-> ItemName(items[i])]

\* The lines that follow the heading of a path in the content section.
AfterHeading(text, heading, n) ==
    LET at == CHOOSE i \in 1..Len(text) : text[i] = S_h2 \o heading
    IN  SubSeq(text, at + 1, Min(at + n, Len(text)))

-----------------------------------------------------------------------------
(* C5 *)

IgnoreFileUnreadable ==
    /\ exists(fs, gitignore_path)
    /\ \/ isdir(fs, gitignore_path)
       \/ ~decodes(FileBytes(Entry(fs, gitignore_path).content))
       \/ error = "PermissionError"

\* C5: when the ignore file exists and cannot be read, the run goes on
\* with the matcher of a missing ignore file: it does not abort, and nothing
\* is ignored.
C5_UnreadableIgnoreFileFailsOpen ==
    (pc /= "load" /\ IgnoreFileUnreadable) =>
        /\ error \notin {"IsADirectoryError", "PermissionError", "UnicodeDecodeError"}
        /\ spec = None
        /\ \A t \in tested : ~t.result

-----------------------------------------------------------------------------
(* C6 *)

ReadFails(p) == read_text(p, fs, read_failed).raised

\* The run ended between rendering the tree and assembling the document.
AbortedInGather == pc = "crashed" /\ tree_section /= EmptyStr /\ final_markdown = EmptyStr

\* C6: no read that fails while the contents are gathered ends the run,
\* and once they are gathered the headings are those of all the leaves in
\* the order of the tree, whichever reads failed; the heading of a file
\* whose read failed is followed by a fenced block that holds the error
\* message.
C6_ReadFailureIsInlined ==
    /\ ~AbortedInGather
    /\ Gathered =>
          LET leaves == LeafSeq(project_tree, Cwd)
          IN  /\ Headings(contents_section) = [i \in 1..Len(leaves) |-> PathStr(leaves[i].path)]
              /\ \A i \in 1..Len(leaves) :
                    (leaves[i].kind = "FILE" /\ ReadFails(leaves[i].path)) =>
                        LET b == AfterHeading(contents_section, PathStr(leaves[i].path), 5)
                        IN  /\ Len(b) = 5
                            /\ b[1] = <<>>
                            /\ StartsWith(b[2], S_fence)
                            /\ StartsWith(b[3], S_could_not) /\ Len(b[3]) > Len(S_could_not)
                            /\ b[4] = S_fence
                            /\ b[5] = <<>>

\* C6's case: the read of a file failed and a later leaf follows it.
C6_Witness ==
    /\ Gathered
    /\ LET leaves == LeafSeq(project_tree, Cwd)
       IN  \E i \in 1..Len(leaves) :
              /\ i < Len(leaves)
              /\ leaves[i].kind = "FILE"
              /\ leaves[i].path \in read_failed

-----------------------------------------------------------------------------
(* C7 *)

\* C7: the success message is printed only when the document was
\* delivered to the clipboard.
C7_SuccessOnlyWhenDelivered ==
    stdout /= <<>> => (clipboard.set /\ clipboard.text = final_markdown)

-----------------------------------------------------------------------------
(* C8 *)

\* The length of the prefix the claim names.
PrefixLen == 1024

Prefix(c) == [i \in 1..Min(PrefixLen, c.pad + Len(c.tail)) |-> FileBytes(c)[i]]

HasNul(bytes) == \E i \in 1..Len(bytes) : bytes[i] = 0

\* C8: is_binary_file answers BINARY exactly when the read raised, or the
\* first 1024 bytes of the file hold a NUL byte, or they are not valid UTF-8;
\* the bytes after them do not count.
C8_ClassifiedByPrefix ==
    pc = "classified" =>
        (verdict = "BINARY"
            <=> \/ sample.raised
                \/ HasNul(Prefix(sample.content))
                \/ ~decodes(Prefix(sample.content)))

\* C8's case: a file classified TEXT that holds a NUL byte after its first
\* 1024 bytes.
C8_Witness ==
    /\ pc = "classified"
    /\ verdict = "TEXT"
    /\ sample.content.pad = PrefixLen
    /\ HasNul(sample.content.tail)

-----------------------------------------------------------------------------
(* C9 *)

\* C9: the rendering has one line for every node of the tree, none of
\* them empty.
C9_OneLinePerNode ==
    Rendered =>
        /\ LineCount(Rendering) = Cardinality(Nodes(project_tree, Cwd))
        /\ \A i \in 1..LineCount(Rendering) : Rendering[i] /= <<>>

-----------------------------------------------------------------------------
(* C10 *)

Passed(p) == [path |-> p, result |-> FALSE] \in tested /\ [path |-> p, result |-> TRUE] \notin tested

\* C10: at every moment of the traversal and after it, is_ignored
\* answered false for the path of every node attached to the tree and for
\* every directory above it below the root; every call of build_file_tree
\* under way, but the outermost, is on a directory for which it answered
\* false; and it was never asked about the root.
C10_OnlyPathsThatPassed ==
    /\ \A n \in Attached : \A k \in (Len(Cwd) + 1)..Len(n.path) : Passed(SubSeq(n.path, 1, k))
    /\ \A i \in 1..Len(stack) :
          IF i = 1 THEN stack[i].dir = Cwd
          ELSE \A k \in (Len(Cwd) + 1)..Len(stack[i].dir) : Passed(SubSeq(stack[i].dir, 1, k))
    /\ \A t \in tested : t.path /= Cwd /\ Len(t.path) > Len(Cwd)

\* C10's case: the traversal is inside a directory, is_ignored has answered
\* true for some path, and nodes are attached.
C10_Witness ==
    /\ pc = "walk"
    /\ Len(stack) = 2
    /\ \E t \in tested : t.result
    /\ Attached /= {}

====
